---------------------------- MODULE Spec2Model ----------------------------
(***************************************************************************)
(* Model of lance-datafusion's Substrait bridge                            *)
(* (rust/lance-datafusion/src/substrait.rs) and of the error kinds it      *)
(* returns (rust/lance-core/src/error.rs).                                 *)
(*                                                                         *)
(* Conventions.  Option<T> is a sequence of length 0 (None) or 1 (Some).   *)
(* Vec<T> is a sequence; indices stored in the data (field indices, map    *)
(* keys) are 0-based as in the source, so v[i] of the source is v[i+1]     *)
(* here.  A String is the pair of a reserved prefix (or "") and a suffix,  *)
(* so that starts_with is decided by the data.  Result<T> is a record      *)
(* whose kind is "Ok", "Err" or "Panic" (an unwrap of None or an index out *)
(* of range aborts the call).                                              *)
(***************************************************************************)
EXTENDS Integers, Sequences, FiniteSets, TLC

VARIABLES
    pc,                 \* which function runs and where it stands
    native_expr,        \* Option<Expr>: the expression given to encode_substrait
    envelope,           \* the ExtendedExpression decoded from the bytes
    input_schema,       \* the caller's Arrow schema (Vec of fields)
    expr,               \* the mutable wire Expression of parse_substrait / remap
    reconciled,         \* Result of remove_extension_types
    index_mapping,      \* HashMap<usize, usize> handed to remap_expr_references
    remapped,           \* Result<()> of remap_expr_references
    plan,               \* Option: what was handed to the external planner
    df_expr,            \* Option<Expr>: the planner's projected expression
    result,             \* Result<Expr> (or bytes) returned to the caller
    trail,              \* the steps run so far, in order
    shared              \* the CloneableResult values made so far, in order

vars == <<pc, native_expr, envelope, input_schema, expr, reconciled,
          index_mapping, remapped, plan, df_expr, result, trail, shared>>

----------------------------------------------------------------------------
(* Bounds of the model *)

\* top-level fields of a schema
MaxTopFields == 3
\* referenced expressions of an envelope go from 0 to this
MaxReferredExprs == 2

----------------------------------------------------------------------------
(* Option, String, HashMap *)

None == <<>>
Some(x) == <<x>>
is_some(o) == Len(o) > 0
unwrap(o) == o[1]

PLACEHOLDER_PREFIX == "__unlikely_name_placeholder"
String(prefix, suffix) == [prefix |-> prefix, suffix |-> suffix]
EmptyString == String("", -1)
starts_with(s, prefix) == s.prefix = prefix

EmptyMap == [i \in {} |-> 0]
contains_key(m, k) == k \in DOMAIN m
insert(m, k, v) == (k :> v) @@ m

----------------------------------------------------------------------------
(* lance_core::Error *)

ErrorVariants ==
    {"InvalidInput", "SchemaMismatch", "NotSupported", "Schema", "Arrow",
     "Execution", "IO", "Cloned"}

NoError == [variant |-> "", source |-> ""]
\* Error::InvalidInput { source, location } and Error::invalid_input(..)
InvalidInput(source) == [variant |-> "InvalidInput", source |-> source]

\* impl From<prost::DecodeError> for Error
FromDecodeError == [variant |-> "IO", source |-> "prost::DecodeError"]

\* impl From<datafusion_common::DataFusionError> for Error: the Error variant
\* each DataFusionError variant is turned into
DataFusionErrors ==
    {"SQL", "Plan", "Configuration", "SchemaError", "ArrowError",
     "NotImplemented", "Execution", "Substrait", "Internal"}
\* (faulty variant: every DataFusionError becomes InvalidInput)
FromDataFusionErrorAllInvalidInput(variant, message) ==
    [variant |-> "InvalidInput", source |-> message]
\* lines 367-399 of error.rs
FromDataFusionError(variant, message) ==
    [variant |->
        CASE variant \in {"SQL", "Plan", "Configuration"} -> "InvalidInput"
          [] variant = "SchemaError" -> "Schema"
          [] variant = "ArrowError" -> "Arrow"
          [] variant = "NotImplemented" -> "NotSupported"
          [] variant = "Execution" -> "Execution"
          [] OTHER -> "IO",
     source |-> message]

----------------------------------------------------------------------------
(* Substrait types and schemas *)

Type(kind, types) == [kind |-> kind, types |-> types]
TypeI32 == Type("I32", <<>>)
TypeUserDefined == Type("UserDefined", <<>>)
TypeUserDefinedTypeReference == Type("UserDefinedTypeReference", <<>>)
\* a Type whose `kind` oneof is not set
TypeNoKind == Type("None", <<>>)
TypeStruct(types) == Type("Struct", types)

NamedStruct(names, struct) == [names |-> names, struct |-> struct]
EmptyNamedStruct == NamedStruct(<<>>, None)

\* does count_fields abort: dtype.kind.as_ref().unwrap() on an unset kind
RECURSIVE count_fields_panics(_)
count_fields_panics(dtype) ==
    \/ dtype.kind = "None"
    \/ /\ dtype.kind = "Struct"
       /\ \E i \in 1..Len(dtype.types) : count_fields_panics(dtype.types[i])

RECURSIVE SumCounts(_, _)
\* (faulty variant: a record is not counted, only its descendants)
count_fields_flat(dtype) ==
    IF dtype.kind = "Struct" THEN SumCounts(dtype.types, 1) ELSE 1
\* lines 60-65
RECURSIVE count_fields(_)
count_fields(dtype) ==
    IF dtype.kind = "Struct" THEN SumCounts(dtype.types, 1) + 1 ELSE 1

SumCounts(types, i) ==
    IF i > Len(types) THEN 0
    ELSE count_fields(types[i]) + SumCounts(types, i + 1)

----------------------------------------------------------------------------
(* remove_extension_types *)

ReconcileOk(substrait_schema, arrow_schema, mapping) ==
    [kind |-> "Ok", error |-> NoError, substrait_schema |-> substrait_schema,
     arrow_schema |-> arrow_schema, index_mapping |-> mapping]
ReconcileErr(e) ==
    [kind |-> "Err", error |-> e, substrait_schema |-> EmptyNamedStruct,
     arrow_schema |-> <<>>, index_mapping |-> EmptyMap]
ReconcilePanic ==
    [kind |-> "Panic", error |-> NoError, substrait_schema |-> EmptyNamedStruct,
     arrow_schema |-> <<>>, index_mapping |-> EmptyMap]
ReconcileNotRun ==
    [kind |-> "NotRun", error |-> NoError, substrait_schema |-> EmptyNamedStruct,
     arrow_schema |-> <<>>, index_mapping |-> EmptyMap]

\* (faulty variant: the flattened count is compared)
FieldCountMismatchFlat(fields, arrow_schema) ==
    SumCounts(fields.types, 1) # Len(arrow_schema)
\* the up-front check of lines 72-77
FieldCountMismatch(fields, arrow_schema) ==
    Len(fields.types) # Len(arrow_schema)

\* (faulty variant: the kind of the field is not looked at)
IsDroppedNameOnly(name, substrait_field) ==
    starts_with(name, PLACEHOLDER_PREFIX)
\* (faulty variant: a record with a user-defined child is left out too)
IsDroppedWithChildren(name, substrait_field) ==
    \/ starts_with(name, PLACEHOLDER_PREFIX)
    \/ substrait_field.kind \in {"UserDefined", "UserDefinedTypeReference"}
    \/ \E i \in 1..Len(substrait_field.types) :
         substrait_field.types[i].kind
            \in {"UserDefined", "UserDefinedTypeReference"}
\* the condition of lines 87-92, negated: the field is left out
IsDropped(name, substrait_field) ==
    \/ starts_with(name, PLACEHOLDER_PREFIX)
    \/ substrait_field.kind \in {"UserDefined", "UserDefinedTypeReference"}

\* for i in 0..num_fields { index_mapping.insert(field_index + i, field_counter + i) }
RECURSIVE InsertSpanFrom(_, _, _, _, _)
InsertSpanFrom(mapping, field_index, field_counter, num_fields, i) ==
    IF i >= num_fields THEN mapping
    ELSE InsertSpanFrom(insert(mapping, field_index + i, field_counter + i),
                        field_index, field_counter, num_fields, i + 1)
\* (faulty variant: only the slot of the field itself is entered)
InsertSpanHeadOnly(mapping, field_index, field_counter, num_fields) ==
    insert(mapping, field_index, field_counter)
\* (faulty variant: the new index does not follow the fields left out)
InsertSpanKeepIndex(mapping, field_index, field_counter, num_fields) ==
    InsertSpanFrom(mapping, field_index, field_index, num_fields, 0)
InsertSpan(mapping, field_index, field_counter, num_fields) ==
    InsertSpanFrom(mapping, field_index, field_counter, num_fields, 0)

LoopStart ==
    [kept_substrait_fields |-> <<>>, kept_arrow_fields |-> <<>>,
     index_mapping |-> EmptyMap, field_counter |-> 0, field_index |-> 0,
     panic |-> FALSE]

\* the loop of lines 84-101, from the k-th pair of the zip on
RECURSIVE ReconcileLoop(_, _, _, _)
ReconcileLoop(substrait_schema, arrow_schema, k, st) ==
    LET fields == unwrap(substrait_schema.struct) IN
    IF st.panic \/ k > Len(fields.types) \/ k > Len(arrow_schema) THEN st
    ELSE
      LET substrait_field == fields.types[k]
          arrow_field == arrow_schema[k]
      IN
      IF count_fields_panics(substrait_field)
           \/ st.field_index >= Len(substrait_schema.names)
      THEN [st EXCEPT !.panic = TRUE]
      ELSE
        LET num_fields == count_fields(substrait_field)
            name == substrait_schema.names[st.field_index + 1]
            next ==
              IF ~IsDropped(name, substrait_field)
              THEN [st EXCEPT
                      !.kept_substrait_fields = Append(@, substrait_field),
                      !.kept_arrow_fields = Append(@, arrow_field),
                      !.index_mapping = InsertSpan(@, st.field_index,
                                                   st.field_counter, num_fields),
                      !.field_counter = @ + num_fields,
                      !.field_index = @ + num_fields]
              ELSE [st EXCEPT !.field_index = @ + num_fields]
        IN ReconcileLoop(substrait_schema, arrow_schema, k + 1, next)

\* lines 102-107: names[new_idx] = old_name for every old index in the map
RECURSIVE PlaceNames(_, _, _, _)
PlaceNames(old_names, mapping, old_idx, names) ==
    IF old_idx >= Len(old_names) THEN names
    ELSE PlaceNames(old_names, mapping, old_idx + 1,
           IF contains_key(mapping, old_idx)
           THEN [names EXCEPT ![mapping[old_idx] + 1] = old_names[old_idx + 1]]
           ELSE names)

remove_extension_types(substrait_schema, arrow_schema) ==
    IF ~is_some(substrait_schema.struct) THEN ReconcilePanic
    ELSE
      LET fields == unwrap(substrait_schema.struct) IN
      IF FieldCountMismatch(fields, arrow_schema)
      THEN ReconcileErr(InvalidInput("the number of fields in the provided substrait schema did not match the number of fields in the input schema."))
      ELSE
        LET st == ReconcileLoop(substrait_schema, arrow_schema, 1, LoopStart) IN
        IF st.panic THEN ReconcilePanic
        ELSE
          LET blank == [n \in 1..Cardinality(DOMAIN st.index_mapping) |-> EmptyString]
              names == PlaceNames(substrait_schema.names, st.index_mapping, 0, blank)
          IN ReconcileOk(
               NamedStruct(names, Some([types |-> st.kept_substrait_fields])),
               st.kept_arrow_fields,
               st.index_mapping)

----------------------------------------------------------------------------
(* Substrait expressions *)

RexTypes ==
    {"None", "Literal", "Nested", "Enum", "DynamicParameter", "WindowFunction",
     "Subquery", "ScalarFunction", "IfThen", "SwitchExpression",
     "SingularOrList", "MultiOrList", "Cast", "Selection"}

\* An Expression with every oneof unset and every repeated field empty.
\*   nested     Nested: the expressions the nested struct / list holds
\*   args, arguments, function_reference   ScalarFunction
\*   ifs, else  IfThen (clauses [if, then]) and SwitchExpression (clauses
\*              [if (a literal key), then]); match is SwitchExpression's
\*   options, value   SingularOrList (value is an Option), MultiOrList (value
\*              is a Vec, records are the option tuples [fields])
\*   input      Cast
\*   root_type, root_expr, reference_type, segment, field, child
\*              Selection (FieldReference); segment is the oneof of the
\*              direct reference's ReferenceSegment, child is_some of the
\*              struct field's child
Expression ==
    [rex_type |-> "None", literal |-> 0, function_reference |-> 0,
     nested |-> <<>>, args |-> <<>>, arguments |-> <<>>, ifs |-> <<>>,
     else |-> None, match |-> None, options |-> <<>>, records |-> <<>>,
     value |-> <<>>, input |-> None, root_type |-> "None", root_expr |-> None,
     reference_type |-> "None", segment |-> "None", field |-> 0,
     child |-> FALSE]

Literal(v) == [Expression EXCEPT !.rex_type = "Literal", !.literal = v]
Nested(es) == [Expression EXCEPT !.rex_type = "Nested", !.nested = es]
Leaf(rex_type) == [Expression EXCEPT !.rex_type = rex_type]
FunctionArgument(arg_type, value) == [arg_type |-> arg_type, value |-> value]
Value(e) == FunctionArgument("Value", Some(e))
ScalarFunction(f, args, arguments) ==
    [Expression EXCEPT !.rex_type = "ScalarFunction", !.function_reference = f,
                       !.args = args, !.arguments = arguments]
Clause(i, t) == [if |-> i, then |-> t]
IfThen(ifs, else) ==
    [Expression EXCEPT !.rex_type = "IfThen", !.ifs = ifs, !.else = else]
SwitchExpression(match, ifs, else) ==
    [Expression EXCEPT !.rex_type = "SwitchExpression", !.match = match,
                       !.ifs = ifs, !.else = else]
SingularOrList(value, options) ==
    [Expression EXCEPT !.rex_type = "SingularOrList", !.value = value,
                       !.options = options]
Record(fields) == [fields |-> fields]
MultiOrList(value, records) ==
    [Expression EXCEPT !.rex_type = "MultiOrList", !.value = value,
                       !.records = records]
Cast(input) == [Expression EXCEPT !.rex_type = "Cast", !.input = input]
Selection(root_type, root_expr, reference_type, segment, field, child) ==
    [Expression EXCEPT !.rex_type = "Selection", !.root_type = root_type,
                       !.root_expr = root_expr,
                       !.reference_type = reference_type, !.segment = segment,
                       !.field = field, !.child = child]
\* a direct-input bare struct-field reference
FieldRef(i) ==
    Selection("RootReference", None, "DirectReference", "StructField", i, FALSE)

IsFieldRef(e) ==
    /\ e.rex_type = "Selection"
    /\ e.root_type = "RootReference"
    /\ e.reference_type = "DirectReference"
    /\ e.segment = "StructField"
    /\ ~e.child

----------------------------------------------------------------------------
(* remap_expr_references *)

Remap(kind, error, v) == [kind |-> kind, error |-> error, v |-> v]
RemapOk(v) == Remap("Ok", NoError, v)
RemapErr(source, v) == Remap("Err", InvalidInput(source), v)
RemapPanic(v) == Remap("Panic", NoError, v)
RemapNotRun == Remap("NotRun", NoError, Expression)

\* (faulty variant: the index found is not written back)
RemapFieldKeepIndex(e, mapping) ==
    IF contains_key(mapping, e.field) THEN RemapOk(e)
    ELSE RemapErr("pushdown filter referenced a field that is not yet supported by Substrait conversion", e)
\* lines 218-223: the lookup of a bare struct-field reference
RemapField(e, mapping) ==
    IF contains_key(mapping, e.field)
    THEN RemapOk([e EXCEPT !.field = mapping[e.field]])
    ELSE RemapErr("pushdown filter referenced a field that is not yet supported by Substrait conversion", e)

\* lines 193-233
RemapSelection(e, mapping) ==
    IF e.root_type = "None" THEN RemapPanic(e)
    ELSE IF e.root_type \in {"Expression", "OuterReference"} THEN RemapOk(e)
    ELSE IF e.reference_type = "None" THEN RemapPanic(e)
    ELSE IF e.reference_type = "MaskedReference"
      THEN RemapErr("masked references not yet supported in filter expressions", e)
    ELSE IF e.segment = "None" THEN RemapPanic(e)
    ELSE IF e.segment \in {"ListElement", "MapKey"}
      THEN RemapErr("map/list nested references not supported in pushdown filters", e)
    ELSE IF e.child
      THEN RemapErr("nested references in pushdown filters not yet supported", e)
    ELSE RemapField(e, mapping)

RECURSIVE remap_expr_references(_, _)
RECURSIVE RemapVec(_, _, _)
RECURSIVE RemapArguments(_, _, _)
RECURSIVE RemapIfClauses(_, _, _)
RECURSIVE RemapSwitchClauses(_, _, _)
RECURSIVE RemapRecords(_, _, _)

\* for e in exprs.iter_mut() { remap_expr_references(e, mapping)?; }
RemapVec(exprs, mapping, i) ==
    IF i > Len(exprs) THEN RemapOk(exprs)
    ELSE LET r == remap_expr_references(exprs[i], mapping)
             now == [exprs EXCEPT ![i] = r.v]
         IN IF r.kind # "Ok" THEN Remap(r.kind, r.error, now)
            ELSE RemapVec(now, mapping, i + 1)

\* remap_expr_references(o.as_mut().unwrap(), mapping)?
RemapUnwrap(o, mapping) ==
    IF ~is_some(o) THEN RemapPanic(o) ELSE RemapVec(o, mapping, 1)

\* lines 148-153
RemapArguments(arguments, mapping, i) ==
    IF i > Len(arguments) THEN RemapOk(arguments)
    ELSE LET arg == arguments[i] IN
      IF arg.arg_type = "None" THEN RemapPanic(arguments)
      ELSE IF arg.arg_type = "Value"
        THEN LET r == RemapUnwrap(arg.value, mapping)
                 now == [arguments EXCEPT ![i].value = r.v]
             IN IF r.kind # "Ok" THEN Remap(r.kind, r.error, now)
                ELSE RemapArguments(now, mapping, i + 1)
      ELSE RemapArguments(arguments, mapping, i + 1)

\* lines 157-160
RemapIfClauses(ifs, mapping, i) ==
    IF i > Len(ifs) THEN RemapOk(ifs)
    ELSE LET a == RemapUnwrap(ifs[i].if, mapping)
             ifs1 == [ifs EXCEPT ![i].if = a.v]
         IN IF a.kind # "Ok" THEN Remap(a.kind, a.error, ifs1)
            ELSE LET b == RemapUnwrap(ifs[i].then, mapping)
                     ifs2 == [ifs1 EXCEPT ![i].then = b.v]
                 IN IF b.kind # "Ok" THEN Remap(b.kind, b.error, ifs2)
                    ELSE RemapIfClauses(ifs2, mapping, i + 1)

\* lines 165-167
RemapSwitchClauses(ifs, mapping, i) ==
    IF i > Len(ifs) THEN RemapOk(ifs)
    ELSE LET b == RemapUnwrap(ifs[i].then, mapping)
             now == [ifs EXCEPT ![i].then = b.v]
         IN IF b.kind # "Ok" THEN Remap(b.kind, b.error, now)
            ELSE RemapSwitchClauses(now, mapping, i + 1)

\* lines 179-183
RemapRecords(records, mapping, i) ==
    IF i > Len(records) THEN RemapOk(records)
    ELSE LET r == RemapVec(records[i].fields, mapping, 1)
             now == [records EXCEPT ![i].fields = r.v]
         IN IF r.kind # "Ok" THEN Remap(r.kind, r.error, now)
            ELSE RemapRecords(now, mapping, i + 1)

remap_expr_references(e, mapping) ==
    CASE e.rex_type = "None" -> RemapPanic(e)
      [] e.rex_type \in {"Literal", "Nested", "Enum", "DynamicParameter"} ->
           RemapOk(e)
      [] e.rex_type \in {"WindowFunction", "Subquery"} ->
           RemapErr("Window functions or subqueries not allowed in filter expression", e)
      [] e.rex_type = "ScalarFunction" ->
           LET a == RemapVec(e.args, mapping, 1)
               e1 == [e EXCEPT !.args = a.v]
           IN IF a.kind # "Ok" THEN Remap(a.kind, a.error, e1)
              ELSE LET b == RemapArguments(e.arguments, mapping, 1)
                   IN Remap(b.kind, b.error, [e1 EXCEPT !.arguments = b.v])
      [] e.rex_type = "IfThen" ->
           LET a == RemapIfClauses(e.ifs, mapping, 1)
               e1 == [e EXCEPT !.ifs = a.v]
           IN IF a.kind # "Ok" THEN Remap(a.kind, a.error, e1)
              ELSE LET b == RemapUnwrap(e.else, mapping)
                   IN Remap(b.kind, b.error, [e1 EXCEPT !.else = b.v])
      [] e.rex_type = "SwitchExpression" ->
           LET a == RemapSwitchClauses(e.ifs, mapping, 1)
               e1 == [e EXCEPT !.ifs = a.v]
           IN IF a.kind # "Ok" THEN Remap(a.kind, a.error, e1)
              ELSE LET b == RemapUnwrap(e.else, mapping)
                   IN Remap(b.kind, b.error, [e1 EXCEPT !.else = b.v])
      [] e.rex_type = "SingularOrList" ->
           LET a == RemapVec(e.options, mapping, 1)
               e1 == [e EXCEPT !.options = a.v]
           IN IF a.kind # "Ok" THEN Remap(a.kind, a.error, e1)
              ELSE LET b == RemapUnwrap(e.value, mapping)
                   IN Remap(b.kind, b.error, [e1 EXCEPT !.value = b.v])
      [] e.rex_type = "MultiOrList" ->
           LET a == RemapRecords(e.records, mapping, 1)
               e1 == [e EXCEPT !.records = a.v]
           IN IF a.kind # "Ok" THEN Remap(a.kind, a.error, e1)
              ELSE LET b == RemapVec(e.value, mapping, 1)
                   IN Remap(b.kind, b.error, [e1 EXCEPT !.value = b.v])
      [] e.rex_type = "Cast" ->
           LET a == RemapUnwrap(e.input, mapping)
           IN Remap(a.kind, a.error, [e EXCEPT !.input = a.v])
      [] e.rex_type = "Selection" -> RemapSelection(e, mapping)

----------------------------------------------------------------------------
(* Inputs: schemas *)

\* An Arrow field: its name, its data type (named as the wire kind that
\* stands for it) and, for a struct, its child fields.
ArrowField(name, data_type, children) ==
    [name |-> name, data_type |-> data_type, children |-> children]

\* One top-level field of an input schema: its wire type, the prefix of its
\* own name and the prefix of the names of its descendants.
FieldChoice(type, name_prefix, child_prefix) ==
    [type |-> type, name_prefix |-> name_prefix, child_prefix |-> child_prefix]

FieldChoices ==
    {FieldChoice(t, p, "") :
        t \in {TypeI32, TypeUserDefined, TypeStruct(<<TypeI32>>)},
        p \in {"", PLACEHOLDER_PREFIX}}
    \cup {FieldChoice(t, "", "") :
        t \in {TypeUserDefinedTypeReference, TypeNoKind,
               TypeStruct(<<TypeUserDefined>>),
               TypeStruct(<<TypeStruct(<<TypeI32>>)>>)}}
    \cup {FieldChoice(TypeStruct(<<TypeI32>>), "", PLACEHOLDER_PREFIX)}

SchemaChoices == UNION {[1..n -> FieldChoices] : n \in 0..MaxTopFields}

\* The names of a NamedStruct: one per node of the flattened pre-order, the
\* suffix of each being its flattened index.
RECURSIVE FlattenNames(_, _, _)
FlattenNames(choices, k, idx) ==
    IF k > Len(choices) THEN <<>>
    ELSE LET n == count_fields(choices[k].type) IN
         <<String(choices[k].name_prefix, idx)>>
         \o [j \in 1..(n - 1) |-> String(choices[k].child_prefix, idx + j)]
         \o FlattenNames(choices, k + 1, idx + n)

WireSchema(choices, cut) ==
    LET names == FlattenNames(choices, 1, 0) IN
    NamedStruct(SubSeq(names, 1, Len(names) - cut),
                Some([types |-> [k \in 1..Len(choices) |-> choices[k].type]]))

\* The Arrow field for a wire type whose names start at position at (1-based)
\* of the flattened names.
RECURSIVE ArrowFieldAt(_, _, _)
ArrowFieldAt(type, names, at) ==
    ArrowField(names[at], type.kind,
        [j \in 1..Len(type.types) |->
            ArrowFieldAt(type.types[j], names,
                         at + 1 + SumCounts(SubSeq(type.types, 1, j - 1), 1))])

\* The caller's schema for a wire schema: one Arrow field per top-level wire
\* field, d fields more (d > 0) or fewer (d < 0).
ArrowSchemaFor(choices, d) ==
    LET names == FlattenNames(choices, 1, 0)
        types == [k \in 1..Len(choices) |-> choices[k].type]
    IN
    [k \in 1..(Len(choices) + d) |->
        IF k <= Len(choices)
        THEN ArrowFieldAt(types[k], names,
                          SumCounts(SubSeq(types, 1, k - 1), 1) + 1)
        ELSE ArrowField(String("", 100 + k), "I32", <<>>)]

\* ExtendedExpression: malformed says the bytes do not decode; extensions
\* holds the mapping_type of each SimpleExtensionDeclaration
ExtendedExpression(malformed, referred_expr, base_schema, extensions) ==
    [malformed |-> malformed, referred_expr |-> referred_expr,
     base_schema |-> base_schema, extensions |-> extensions]
Envelope(referred_expr, base_schema) ==
    ExtendedExpression(FALSE, referred_expr, base_schema,
                       <<"ExtensionType", "ExtensionFunction", "None">>)
ExpressionReference(expr_type, e) == [expr_type |-> expr_type, expr |-> e]

----------------------------------------------------------------------------
(* remove_extension_types as a function of its inputs *)

ResultNone == [kind |-> "None", error |-> NoError, value |-> None]

InitReconcile ==
    \E choices \in SchemaChoices, cut \in {0, 1}, d \in {-1, 0, 1} :
      /\ Len(choices) + d >= 0
      /\ cut <= Len(choices)
      /\ pc = "remove_extension_types"
      /\ native_expr = None
      /\ envelope = Envelope(<<>>, Some(WireSchema(choices, cut)))
      /\ input_schema = ArrowSchemaFor(choices, d)
      /\ expr = Expression
      /\ reconciled = ReconcileNotRun
      /\ index_mapping = EmptyMap
      /\ remapped = RemapNotRun
      /\ plan = None
      /\ df_expr = None
      /\ result = ResultNone
      /\ trail = <<>>
      /\ shared = <<>>

CallRemoveExtensionTypes ==
    /\ pc = "remove_extension_types"
    /\ reconciled' = remove_extension_types(unwrap(envelope.base_schema),
                                            input_schema)
    /\ pc' = "returned"
    /\ trail' = Append(trail, "remove_extension_types")
    /\ UNCHANGED <<shared, native_expr, envelope, input_schema, expr, index_mapping,
                   remapped, plan, df_expr, result>>

NextReconcile == CallRemoveExtensionTypes

SpecReconcile == InitReconcile /\ [][NextReconcile]_vars

----------------------------------------------------------------------------
(* Inputs: expressions *)

\* the field indices an input expression refers to: one more than a schema
\* of MaxTopFields leaves has
RefIndices == 0..MaxTopFields

LiteralKey == Literal(7)

\* expressions without sub-expressions
Leaves ==
    {Literal(0), Leaf("Enum"), Leaf("DynamicParameter"),
     Leaf("WindowFunction"), Leaf("Subquery"), Leaf("None")}
    \cup {FieldRef(i) : i \in RefIndices}
    \cup {Selection("RootReference", None, "DirectReference", "StructField", 0, TRUE),
          Selection("RootReference", None, "DirectReference", "ListElement", 0, FALSE),
          Selection("RootReference", None, "DirectReference", "MapKey", 0, FALSE),
          Selection("RootReference", None, "DirectReference", "None", 0, FALSE),
          Selection("RootReference", None, "MaskedReference", "None", 0, FALSE),
          Selection("RootReference", None, "None", "None", 0, FALSE),
          Selection("OuterReference", None, "DirectReference", "StructField", 0, FALSE),
          Selection("None", None, "DirectReference", "StructField", 0, FALSE)}

\* every place a sub-expression c can stand in, one level up
Wrap(c) ==
    {Nested(<<c>>),
     ScalarFunction(1, <<c>>, <<>>),
     ScalarFunction(1, <<>>, <<Value(c)>>),
     ScalarFunction(1, <<>>, <<Value(c), Value(FieldRef(1))>>),
     ScalarFunction(1, <<>>, <<FunctionArgument("Enum", None), Value(c)>>),
     IfThen(<<Clause(Some(c), Some(Literal(0)))>>, Some(Literal(0))),
     IfThen(<<Clause(Some(Literal(0)), Some(c))>>, Some(Literal(0))),
     IfThen(<<Clause(Some(Literal(0)), Some(Literal(0)))>>, Some(c)),
     SwitchExpression(Some(c), <<Clause(Some(LiteralKey), Some(Literal(0)))>>,
                      Some(Literal(0))),
     SwitchExpression(Some(Literal(0)), <<Clause(Some(LiteralKey), Some(c))>>,
                      Some(Literal(0))),
     SwitchExpression(Some(Literal(0)),
                      <<Clause(Some(LiteralKey), Some(Literal(0)))>>, Some(c)),
     SingularOrList(Some(c), <<Literal(0)>>),
     SingularOrList(Some(Literal(0)), <<Literal(0), c>>),
     MultiOrList(<<c>>, <<Record(<<Literal(0)>>)>>),
     MultiOrList(<<Literal(0)>>, <<Record(<<c>>)>>),
     Cast(Some(c)),
     Selection("Expression", Some(c), "DirectReference", "StructField", 0, FALSE)}

\* the second level keeps one place per traversal of the remapper
WrapAgain(c) ==
    {Nested(<<c>>),
     ScalarFunction(1, <<>>, <<Value(FieldRef(0)), Value(c)>>),
     IfThen(<<Clause(Some(FieldRef(0)), Some(Literal(0)))>>, Some(c)),
     Cast(Some(c))}

\* expressions with an unset oneof or a missing boxed child
Unset ==
    {ScalarFunction(1, <<>>, <<FunctionArgument("None", None)>>),
     ScalarFunction(1, <<>>, <<FunctionArgument("Type", None)>>),
     IfThen(<<Clause(Some(FieldRef(0)), Some(Literal(0)))>>, None),
     IfThen(<<Clause(None, Some(Literal(0)))>>, Some(Literal(0))),
     IfThen(<<Clause(Some(Literal(0)), None)>>, Some(Literal(0))),
     SwitchExpression(None, <<Clause(Some(LiteralKey), Some(FieldRef(0)))>>, None),
     SwitchExpression(None, <<Clause(Some(LiteralKey), None)>>, Some(Literal(0))),
     SingularOrList(None, <<FieldRef(0)>>),
     Cast(None)}

Depth1 == UNION {Wrap(c) : c \in Leaves} \cup Unset
Depth2 == UNION {WrapAgain(c) : c \in Depth1}

\* the index maps the reconciler produces for schemas of leaves and records
MappingChoices ==
    {FieldChoice(TypeI32, "", ""), FieldChoice(TypeI32, PLACEHOLDER_PREFIX, ""),
     FieldChoice(TypeStruct(<<TypeI32>>), "", "")}
Mappings ==
    {remove_extension_types(WireSchema(choices, 0),
                            ArrowSchemaFor(choices, 0)).index_mapping :
        choices \in [1..MaxTopFields -> MappingChoices]}

----------------------------------------------------------------------------
(* remap_expr_references as a function of its inputs *)

InitRemap ==
    \E e \in Leaves \cup Depth1 \cup Depth2, mapping \in Mappings :
      /\ pc = "remap_expr_references"
      /\ native_expr = None
      /\ envelope = Envelope(<<>>, None)
      /\ input_schema = <<>>
      /\ expr = e
      /\ reconciled = ReconcileNotRun
      /\ index_mapping = mapping
      /\ remapped = RemapNotRun
      /\ plan = None
      /\ df_expr = None
      /\ result = ResultNone
      /\ trail = <<>>
      /\ shared = <<>>

CallRemapExprReferences ==
    /\ pc = "remap_expr_references"
    /\ remapped' = remap_expr_references(expr, index_mapping)
    /\ pc' = "returned"
    /\ trail' = Append(trail, "remap_expr_references")
    /\ UNCHANGED <<shared, native_expr, envelope, input_schema, expr, reconciled,
                   index_mapping, plan, df_expr, result>>

NextRemap == CallRemapExprReferences

SpecRemap == InitRemap /\ [][NextRemap]_vars

----------------------------------------------------------------------------
(* CloneableError and CloneableResult (lance-core error.rs) *)

MaxShared == 3

\* where an error was made: snafu's Location, std::panic::Location::caller()
Locations == {"substrait.rs:243", "stream.rs:10"}

\* an Error with its detail: the text of its source or message as a list of
\* pieces, and its location
ErrorAt(variant, source, location) ==
    [variant |-> variant, source |-> source, location |-> location]

\* #[snafu(display(..))] of each variant: what comes before the source
Display(variant) ==
    CASE variant = "InvalidInput" -> "Invalid user input: "
      [] variant = "NotSupported" -> "Not supported: "
      [] variant = "Schema" -> "LanceError(Schema): "
      [] variant = "Arrow" -> "LanceError(Arrow): "
      [] variant = "IO" -> "LanceError(IO): "
      [] variant = "Execution" -> "Query Execution error: "
      [] variant = "Cloned" -> "Cloned error: "
      [] OTHER -> "Append with different schema: "

\* Error::to_string(): "<display of the variant><source>, <location>"
to_string(e) ==
    <<Display(e.variant)>> \o e.source
    \o <<IF e.variant = "SchemaMismatch" THEN ", location: " ELSE ", ">>
    \o <<e.location>>

\* Error::Cloned { message, location }
Cloned(message, location) == ErrorAt("Cloned", message, location)

\* pub struct CloneableError(pub Error)
CloneableError(e) == <<e>>

\* (faulty variant: the clone is the same error at the place of the clone)
clone_keeps_variant(self, location) ==
    CloneableError([self[1] EXCEPT !.location = location])
\* impl Clone for CloneableError, lines 426-434; #[track_caller] gives the
\* location
clone(self, location) ==
    CloneableError(Cloned(to_string(self[1]), location))

\* std Result<T, E> with E and T as options
ResultOk(v) == [kind |-> "Ok", error |-> None, value |-> Some(v)]
ResultErr(e) == [kind |-> "Err", error |-> Some(e), value |-> None]
\* pub struct CloneableResult<T: Clone>(pub Result<T, CloneableError>)
CloneableResult(r) == <<r>>

\* impl From<Result<T>> for CloneableResult<T>, lines 439-443
\* (result.map_err(CloneableError))
From(r) ==
    CloneableResult(
        IF r.kind = "Err" THEN ResultErr(CloneableError(unwrap(r.error)))
        ELSE r)

\* #[derive(Clone)] of CloneableResult: Ok(v) => Ok(v.clone()),
\* Err(e) => Err(e.clone())
clone_result(self, location) ==
    CloneableResult(
        IF self[1].kind = "Err"
        THEN ResultErr(clone(unwrap(self[1].error), location))
        ELSE self[1])

\* self.0.map_err(|e| e.0): the Result<T> a holder of the value gets out
into_result(self) ==
    IF self[1].kind = "Err" THEN ResultErr(unwrap(self[1].error)[1])
    ELSE self[1]

\* the failed and successful results a fallible source gives
BaseErrors ==
    {ErrorAt(variant, <<source>>, location) :
        variant \in {"InvalidInput", "IO", "SchemaMismatch"},
        source \in {"the provided substrait was not a scalar expression"},
        location \in Locations}
BaseResults == {ResultOk(1)} \cup {ResultErr(e) : e \in BaseErrors}

\* a value of `shared`: the CloneableResult, and what is remembered of how
\* it was made
Shared(cell, from, input, relayed) ==
    [cell |-> cell, made |-> cell, from |-> from, input |-> input,
     relayed |-> relayed]

InitClone ==
    /\ pc = "shared"
    /\ native_expr = None
    /\ envelope = Envelope(<<>>, None)
    /\ input_schema = <<>>
    /\ expr = Expression
    /\ reconciled = ReconcileNotRun
    /\ index_mapping = EmptyMap
    /\ remapped = RemapNotRun
    /\ plan = None
    /\ df_expr = None
    /\ result = ResultNone
    /\ trail = <<>>
    /\ shared = <<>>

\* CloneableResult::from(result) on the result of a fallible source
FromSource ==
    /\ Len(shared) < MaxShared
    /\ \E r \in BaseResults :
         shared' = Append(shared, Shared(From(r), 0, Some(r), FALSE))
    /\ UNCHANGED <<pc, native_expr, envelope, input_schema, expr, reconciled,
                   index_mapping, remapped, plan, df_expr, result, trail>>

\* CloneableResult::from(result) on a result a consumer took out of a
\* CloneableResult it held: the next fan-out point
FromShared ==
    /\ Len(shared) < MaxShared
    /\ \E i \in 1..Len(shared) :
         LET r == into_result(shared[i].cell) IN
         shared' = Append(shared,
                          Shared(From(r), 0, Some(r), shared[i].relayed))
    /\ UNCHANGED <<pc, native_expr, envelope, input_schema, expr, reconciled,
                   index_mapping, remapped, plan, df_expr, result, trail>>

\* shared[i].clone()
Clone ==
    /\ Len(shared) < MaxShared
    /\ \E i \in 1..Len(shared), location \in Locations :
         shared' = Append(shared,
                          Shared(clone_result(shared[i].cell, location), i,
                                 None, shared[i].cell[1].kind = "Err"))
    /\ UNCHANGED <<pc, native_expr, envelope, input_schema, expr, reconciled,
                   index_mapping, remapped, plan, df_expr, result, trail>>

NextClone ==
    \/ FromSource
    \/ FromShared
    \/ Clone

SpecClone == InitClone /\ [][NextClone]_vars

----------------------------------------------------------------------------
(* DataFusion expressions *)

TableReference(kind, table) == [kind |-> kind, table |-> table]
Bare(table) == TableReference("Bare", table)

\* Expr: variant, and the fields of the variants the bridge meets
Expr ==
    [variant |-> "None", relation |-> None, name |-> EmptyString, value |-> 0,
     op |-> 0, children |-> <<>>]
ExprColumn(relation, name) ==
    [Expr EXCEPT !.variant = "Column", !.relation = relation, !.name = name]
ExprLiteral(v) == [Expr EXCEPT !.variant = "Literal", !.value = v]
ExprBinary(left, op, right) ==
    [Expr EXCEPT !.variant = "BinaryExpr", !.op = op,
                 !.children = <<left, right>>]
ExprOther(variant, children) ==
    [Expr EXCEPT !.variant = variant, !.children = children]

Result(kind, error, value) == [kind |-> kind, error |-> error, value |-> value]
Ok(value) == Result("Ok", NoError, Some(value))
Err(error) == Result("Err", error, None)
Panic == Result("Panic", NoError, None)

----------------------------------------------------------------------------
(* encode_substrait, with the external producer it delegates to *)

RECURSIVE ArrowToType(_)
ArrowToType(field) ==
    Type(field.data_type,
         [j \in 1..Len(field.children) |-> ArrowToType(field.children[j])])

RECURSIVE ArrowNames(_)
RECURSIVE ArrowNamesOf(_, _)
ArrowNames(field) == <<field.name>> \o ArrowNamesOf(field.children, 1)
ArrowNamesOf(fields, k) ==
    IF k > Len(fields) THEN <<>>
    ELSE ArrowNames(fields[k]) \o ArrowNamesOf(fields, k + 1)

RECURSIVE ArrowRepresentable(_)
ArrowRepresentable(field) ==
    /\ field.data_type \in {"I32", "Struct"}
    /\ \A j \in 1..Len(field.children) : ArrowRepresentable(field.children[j])

\* the producer's schema: the flattened names and the top-level types
ToSubstraitNamedStruct(schema) ==
    NamedStruct(ArrowNamesOf(schema, 1),
                Some([types |-> [k \in 1..Len(schema) |-> ArrowToType(schema[k])]]))

\* the position (0-based) of the unqualified column in the schema, or -1
IndexOfColumn(schema, name) ==
    IF \E k \in 1..Len(schema) : schema[k].name = name
    THEN (CHOOSE k \in 1..Len(schema) :
            /\ schema[k].name = name
            /\ \A j \in 1..(k - 1) : schema[j].name # name) - 1
    ELSE -1

RECURSIVE ColumnsResolve(_, _)
ColumnsResolve(e, schema) ==
    /\ e.variant = "Column" =>
         ~is_some(e.relation) /\ IndexOfColumn(schema, e.name) >= 0
    /\ \A i \in 1..Len(e.children) : ColumnsResolve(e.children[i], schema)

\* the producer's expression: a column becomes a direct reference to its
\* position, a binary operator a scalar function of two value arguments
RECURSIVE ToSubstraitRex(_, _)
ToSubstraitRex(e, schema) ==
    CASE e.variant = "Column" -> FieldRef(IndexOfColumn(schema, e.name))
      [] e.variant = "Literal" -> Literal(e.value)
      [] OTHER ->
           ScalarFunction(e.op, <<>>,
               [i \in 1..Len(e.children) |->
                   Value(ToSubstraitRex(e.children[i], schema))])

\* Result: the ExtendedExpression the bytes hold
encode_substrait(e, schema) ==
    IF ~ColumnsResolve(e, schema)
    THEN Err(FromDataFusionError("SchemaError", "field not found"))
    ELSE IF \E k \in 1..Len(schema) : ~ArrowRepresentable(schema[k])
    THEN Err(FromDataFusionError("NotImplemented", "unsupported type"))
    ELSE Ok(ExtendedExpression(FALSE,
              <<ExpressionReference("Expression", ToSubstraitRex(e, schema))>>,
              Some(ToSubstraitNamedStruct(schema)),
              <<"ExtensionFunction">>))

----------------------------------------------------------------------------
(* parse_substrait: the envelope checks *)

\* (faulty variant: more than one referenced expression goes unnoticed)
ValidateEnvelopeNoCount(env) ==
    IF env.referred_expr = <<>>
    THEN Err(InvalidInput("the provided substrait expression is empty (contains no expressions)"))
    ELSE IF env.referred_expr[1].expr_type = "None"
    THEN Err(InvalidInput("the provided substrait had an expression but was missing an expr_type"))
    ELSE IF env.referred_expr[1].expr_type = "Expression"
    THEN Ok(env.referred_expr[1].expr)
    ELSE Err(InvalidInput("the provided substrait was not a scalar expression"))
\* (faulty variant: the expr_type of the entry is not looked at)
ValidateEnvelopeNoKind(env) ==
    IF env.referred_expr = <<>>
    THEN Err(InvalidInput("the provided substrait expression is empty (contains no expressions)"))
    ELSE IF Len(env.referred_expr) > 1
    THEN Err(InvalidInput("the provided substrait expression had {} expressions when only 1 was expected"))
    ELSE Ok(env.referred_expr[1].expr)
\* lines 242-268: Result holding the cloned Expression
ValidateEnvelope(env) ==
    IF env.referred_expr = <<>>
    THEN Err(InvalidInput("the provided substrait expression is empty (contains no expressions)"))
    ELSE IF Len(env.referred_expr) > 1
    THEN Err(InvalidInput("the provided substrait expression had {} expressions when only 1 was expected"))
    ELSE IF env.referred_expr[1].expr_type = "None"
    THEN Err(InvalidInput("the provided substrait had an expression but was missing an expr_type"))
    ELSE IF env.referred_expr[1].expr_type = "Expression"
    THEN Ok(env.referred_expr[1].expr)
    ELSE Err(InvalidInput("the provided substrait was not a scalar expression"))

\* lines 120-128
remove_type_extensions(declarations) ==
    SelectSeq(declarations, LAMBDA d : d = "ExtensionFunction")

\* (faulty variant: the remapper is never called)
FieldsWereDroppedNever(reduced, base_schema) == FALSE
\* lines 277-287: did reconciliation leave a top-level field out
FieldsWereDropped(reduced, base_schema) ==
    Len(unwrap(reduced.struct).types) # Len(unwrap(base_schema.struct).types)

----------------------------------------------------------------------------
(* parse_substrait: the external planner *)

\* lines 298-341: the dummy plan and the table registered under "dummy"
Plan(extensions, base_schema, expression, table_schema) ==
    [extensions |-> extensions, base_schema |-> base_schema,
     expressions |-> <<expression>>, names |-> <<"dummy">>,
     table_schema |-> table_schema]

\* the names of the top-level fields of the plan's relation, as far as the
\* names and the types of its schema give them
RECURSIVE TopNamesFrom(_, _, _, _)
TopNamesFrom(names, types, k, at) ==
    IF k > Len(types) \/ at > Len(names) \/ count_fields_panics(types[k])
    THEN <<>>
    ELSE <<names[at]>>
         \o TopNamesFrom(names, types, k + 1, at + count_fields(types[k]))
TopNames(schema) ==
    IF is_some(schema.struct)
    THEN TopNamesFrom(schema.names, unwrap(schema.struct).types, 1, 1)
    ELSE <<>>

\* the expressions the external consumer converts: literals, scalar functions
\* of value arguments, conditionals, membership tests, casts, window
\* functions, subqueries and direct references to a field of the relation
RECURSIVE PlannerAccepts(_, _)
PlannerAccepts(e, ncols) ==
    LET All(es) == \A i \in 1..Len(es) : PlannerAccepts(es[i], ncols) IN
    CASE e.rex_type \in {"Literal", "WindowFunction", "Subquery"} -> TRUE
      [] e.rex_type = "ScalarFunction" ->
           /\ e.args = <<>>
           /\ \A i \in 1..Len(e.arguments) :
                /\ e.arguments[i].arg_type = "Value"
                /\ is_some(e.arguments[i].value)
                /\ All(e.arguments[i].value)
      [] e.rex_type = "IfThen" ->
           /\ \A i \in 1..Len(e.ifs) :
                /\ is_some(e.ifs[i].if) /\ All(e.ifs[i].if)
                /\ is_some(e.ifs[i].then) /\ All(e.ifs[i].then)
           /\ All(e.else)
      [] e.rex_type = "SingularOrList" ->
           is_some(e.value) /\ All(e.value) /\ All(e.options)
      [] e.rex_type = "Cast" -> is_some(e.input) /\ All(e.input)
      [] e.rex_type = "Selection" ->
           IsFieldRef(e) /\ e.field >= 0 /\ e.field < ncols
      [] OTHER -> FALSE

\* the sub-expressions the consumer converts, in order
ConsumedChildren(e) ==
    [i \in 1..Len(e.arguments) |-> unwrap(e.arguments[i].value)]
    \o [i \in 1..(2 * Len(e.ifs)) |->
          IF i % 2 = 1 THEN unwrap(e.ifs[(i + 1) \div 2].if)
          ELSE unwrap(e.ifs[i \div 2].then)]
    \o e.else \o e.value \o e.options \o e.input

\* the consumer's expression over the relation with the given top-level
\* names; a reference to field `odd` comes back with relation `other`, every
\* other one qualified by the table of the plan
RECURSIVE FromSubstraitRex(_, _, _, _)
FromSubstraitRex(e, names, odd, other) ==
    LET kids == [i \in 1..Len(ConsumedChildren(e)) |->
                   FromSubstraitRex(ConsumedChildren(e)[i], names, odd, other)]
    IN
    CASE e.rex_type = "Selection" ->
           ExprColumn(IF e.field = odd THEN other ELSE Some(Bare("dummy")),
                      names[e.field + 1])
      [] e.rex_type = "Literal" -> ExprLiteral(e.literal)
      [] e.rex_type = "ScalarFunction" /\ Len(kids) = 2 ->
           ExprBinary(kids[1], e.function_reference, kids[2])
      [] OTHER -> [ExprOther(e.rex_type, kids) EXCEPT !.op = e.function_reference]

\* the field indices the consumer resolves
RECURSIVE ConsumedRefs(_)
ConsumedRefs(e) ==
    IF e.rex_type = "Selection" THEN {e.field}
    ELSE UNION {ConsumedRefs(ConsumedChildren(e)[i]) :
                   i \in 1..Len(ConsumedChildren(e))}

\* what a column can come back qualified with, other than the plan's table
OtherRelations ==
    {None, Some(Bare("other")), Some(TableReference("Partial", "dummy")),
     Some(TableReference("Full", "dummy"))}

\* the errors the planner is seen to fail with
PlannerErrors == {"Plan", "NotImplemented", "Substrait"}

----------------------------------------------------------------------------
(* parse_substrait: the qualifier-stripping pass *)

\* (faulty variant: the qualifier is left on)
StripKeepsRelation(node) == Ok(node)
\* (faulty variant: any bare table is taken for the dummy table)
StripAnyBare(node) ==
    IF node.variant = "Column" /\ is_some(node.relation)
    THEN IF unwrap(node.relation).kind = "Bare"
         THEN Ok(ExprColumn(None, node.name))
         ELSE Err(FromDataFusionError("Substrait", "Unexpected partially or fully qualified table reference encountered when parsing filter"))
    ELSE Ok(node)
\* the closure of lines 354-381, on one node
StripNode(node) ==
    IF node.variant = "Column"
    THEN IF is_some(node.relation)
         THEN LET relation == unwrap(node.relation) IN
              IF relation.kind = "Bare"
              THEN IF relation.table = "dummy"
                   THEN Ok(ExprColumn(None, node.name))
                   ELSE Err(FromDataFusionError("Substrait", "Unexpected reference to table {} found when parsing filter"))
              ELSE Err(FromDataFusionError("Substrait", "Unexpected partially or fully qualified table reference encountered when parsing filter"))
         ELSE Ok(node)
    ELSE Ok(node)

\* TreeNode::transform with that closure: children first, in order, the
\* first error ending the pass
RECURSIVE Transform(_)
RECURSIVE TransformChildren(_, _)
TransformChildren(children, i) ==
    IF i > Len(children) THEN Ok(children)
    ELSE LET r == Transform(children[i]) IN
         IF r.kind # "Ok" THEN r
         ELSE TransformChildren([children EXCEPT ![i] = unwrap(r.value)], i + 1)
Transform(node) ==
    LET c == TransformChildren(node.children, 1) IN
    IF c.kind # "Ok" THEN c
    ELSE StripNode([node EXCEPT !.children = unwrap(c.value)])

----------------------------------------------------------------------------
(* Inputs of encode_substrait and parse_substrait *)

\* schemas of the round trip: representable fields, a field whose name has
\* the reserved prefix, and a field the producer cannot convert
RoundTripChoices ==
    {FieldChoice(TypeI32, "", ""), FieldChoice(TypeI32, PLACEHOLDER_PREFIX, ""),
     FieldChoice(TypeStruct(<<TypeI32>>), "", ""),
     FieldChoice(TypeUserDefined, "", "")}

\* unqualified columns of the schema, and one column it does not have
ColumnsOf(schema) ==
    {ExprColumn(None, schema[k].name) : k \in 1..Len(schema)}
    \cup {ExprColumn(None, String("", 99))}

\* operators: 1 is <, 2 is =, 3 is AND
NativeExprs(schema) ==
    LET cols == ColumnsOf(schema)
        cmps == {ExprBinary(c, op, ExprLiteral(v)) :
                    c \in cols, op \in {1, 2}, v \in {0, 5}}
    IN cols \cup {ExprLiteral(0)} \cup cmps
       \cup {ExprBinary(c, 2, d) : c \in cols, d \in cols}
       \cup {ExprBinary(ExprBinary(c, 1, ExprLiteral(0)), 3,
                        ExprBinary(d, 2, ExprLiteral(5))) :
               c \in cols, d \in cols}

\* wire schemas of arbitrary envelopes
DecodeChoices ==
    {FieldChoice(TypeI32, "", ""), FieldChoice(TypeI32, PLACEHOLDER_PREFIX, ""),
     FieldChoice(TypeUserDefined, "", ""),
     FieldChoice(TypeStruct(<<TypeI32>>), "", "")}
DecodeSchemaChoices == UNION {[1..n -> DecodeChoices] : n \in 0..MaxTopFields}

ExprTypes == {"None", "Expression", "Measure"}
ProbeExprs == {FieldRef(0), FieldRef(1), Leaf("WindowFunction")}

Start(p, native, env, schema) ==
    /\ pc = p
    /\ native_expr = native
    /\ envelope = env
    /\ input_schema = schema
    /\ expr = Expression
    /\ reconciled = ReconcileNotRun
    /\ index_mapping = EmptyMap
    /\ remapped = RemapNotRun
    /\ plan = None
    /\ df_expr = None
    /\ result = ResultNone
    /\ trail = <<>>
    /\ shared = <<>>

\* encode_substrait(e, s) followed by parse_substrait(bytes, s)
InitRoundTrip ==
    \E n \in 1..MaxTopFields :
      \E choices \in [1..n -> RoundTripChoices] :
        \E e \in NativeExprs(ArrowSchemaFor(choices, 0)) :
          Start("encode_substrait", Some(e), Envelope(<<>>, None),
                ArrowSchemaFor(choices, 0))

\* parse_substrait on bytes that do not decode, and on envelopes with any
\* number and kind of referenced expressions
InitEnvelopes ==
    \/ Start("parse_substrait", None,
             ExtendedExpression(TRUE, <<>>, None, <<>>), <<>>)
    \/ \E n \in 0..MaxReferredExprs, e \in ProbeExprs :
         \E types \in [1..n -> ExprTypes] :
           \E choices \in [1..2 -> {FieldChoice(TypeI32, "", ""),
                                    FieldChoice(TypeI32, PLACEHOLDER_PREFIX, "")}] :
             Start("parse_substrait", None,
                   Envelope([i \in 1..n |-> ExpressionReference(types[i], e)],
                            Some(WireSchema(choices, 0))),
                   ArrowSchemaFor(choices, 0))

\* parse_substrait on envelopes with one scalar expression: any expression
\* over any schema the caller's schema matches, ...
InitExpressions ==
    \E e \in Leaves \cup Depth1 :
      \E choices \in UNION {[1..n -> MappingChoices] : n \in 0..MaxTopFields} :
      Start("parse_substrait", None,
            Envelope(<<ExpressionReference("Expression", e)>>,
                     Some(WireSchema(choices, 0))),
            ArrowSchemaFor(choices, 0))

\* ... and a few expressions over schemas the caller's schema does not
\* match, schemas short of a name, and envelopes without a schema
InitSchemas ==
    \E e \in ProbeExprs :
      \/ \E choices \in DecodeSchemaChoices, cut \in {0, 1}, d \in {-1, 0, 1} :
           /\ Len(choices) + d >= 0
           /\ cut <= Len(choices)
           /\ Start("parse_substrait", None,
                    Envelope(<<ExpressionReference("Expression", e)>>,
                             Some(WireSchema(choices, cut))),
                    ArrowSchemaFor(choices, d))
      \/ \E choices \in DecodeSchemaChoices,
            base \in {None, Some(EmptyNamedStruct),
                      Some(NamedStruct(<<String(PLACEHOLDER_PREFIX, 0)>>, None))} :
           Start("parse_substrait", None,
                 Envelope(<<ExpressionReference("Expression", e)>>, base),
                 ArrowSchemaFor(choices, 0))
      \/ \E t \in {TypeNoKind, TypeStruct(<<TypeNoKind>>)} :
           LET choices == <<FieldChoice(TypeI32, PLACEHOLDER_PREFIX, ""),
                            FieldChoice(t, "", "")>> IN
           Start("parse_substrait", None,
                 Envelope(<<ExpressionReference("Expression", e)>>,
                          Some(WireSchema(choices, 0))),
                 ArrowSchemaFor(choices, 0))

Init == InitRoundTrip \/ InitEnvelopes \/ InitExpressions \/ InitSchemas

----------------------------------------------------------------------------
(* encode_substrait and parse_substrait, step by step *)

\* (faulty variant: a failure before plan construction is recorded and the
\* decode goes on to the planner)
ReturnAndGoOn(r) ==
    /\ result' = r
    /\ pc' = IF r.kind = "Err" /\ pc \in {"validate", "reconcile", "remap"}
             THEN "plan" ELSE "done"
\* `return`, and the early return of `?`
Return(r) ==
    /\ result' = r
    /\ pc' = "done"

\* encode_substrait, lines 40-58; its bytes are then given to parse_substrait
Encode ==
    /\ pc = "encode_substrait"
    /\ LET r == encode_substrait(unwrap(native_expr), input_schema) IN
       IF r.kind = "Ok"
       THEN /\ envelope' = unwrap(r.value)
            /\ pc' = "parse_substrait"
            /\ UNCHANGED result
       ELSE /\ Return(Err(r.error))
            /\ UNCHANGED envelope
    /\ trail' = Append(trail, "encode")
    /\ UNCHANGED <<shared, native_expr, input_schema, expr, reconciled, index_mapping,
                   remapped, plan, df_expr>>

\* line 241: ExtendedExpression::decode(expr)?
Decode ==
    /\ pc = "parse_substrait"
    /\ IF envelope.malformed
       THEN Return(Err(FromDecodeError))
       ELSE pc' = "validate" /\ UNCHANGED result
    /\ trail' = Append(trail, "decode")
    /\ UNCHANGED <<shared, native_expr, envelope, input_schema, expr, reconciled,
                   index_mapping, remapped, plan, df_expr>>

\* lines 242-268
Validate ==
    /\ pc = "validate"
    /\ LET r == ValidateEnvelope(envelope) IN
       IF r.kind = "Ok"
       THEN /\ expr' = unwrap(r.value)
            /\ pc' = "reconcile"
            /\ UNCHANGED result
       ELSE /\ Return(Err(r.error))
            /\ UNCHANGED expr
    /\ trail' = Append(trail, "validate")
    /\ UNCHANGED <<shared, native_expr, envelope, input_schema, reconciled,
                   index_mapping, remapped, plan, df_expr>>

\* lines 270-294, up to the call of remap_expr_references
Reconcile ==
    /\ pc = "reconcile"
    /\ IF ~is_some(envelope.base_schema)
       THEN /\ Return(Panic)
            /\ UNCHANGED <<reconciled, index_mapping>>
       ELSE LET base_schema == unwrap(envelope.base_schema) IN
         IF is_some(base_schema.struct)
         THEN LET r == remove_extension_types(base_schema, input_schema) IN
              /\ reconciled' = r
              /\ index_mapping' = r.index_mapping
              /\ IF r.kind = "Err" THEN Return(Err(r.error))
                 ELSE IF r.kind = "Panic" THEN Return(Panic)
                 ELSE /\ pc' = IF FieldsWereDropped(r.substrait_schema, base_schema)
                               THEN "remap" ELSE "plan"
                      /\ UNCHANGED result
         ELSE /\ pc' = "plan"
              /\ UNCHANGED <<reconciled, index_mapping, result>>
    /\ trail' = Append(trail, "reconcile")
    /\ UNCHANGED <<shared, native_expr, envelope, input_schema, expr, remapped, plan,
                   df_expr>>

\* line 288
RemapReferences ==
    /\ pc = "remap"
    /\ LET r == remap_expr_references(expr, index_mapping) IN
       /\ remapped' = r
       /\ expr' = r.v
       /\ IF r.kind = "Err" THEN Return(Err(r.error))
          ELSE IF r.kind = "Panic" THEN Return(Panic)
          ELSE pc' = "plan" /\ UNCHANGED result
    /\ trail' = Append(trail, "remap")
    /\ UNCHANGED <<shared, native_expr, envelope, input_schema, reconciled,
                   index_mapping, plan, df_expr>>

\* the (substrait_schema, input_schema) pair of lines 270-294
SubstraitSchema ==
    IF reconciled.kind = "Ok" THEN reconciled.substrait_schema
    ELSE unwrap(envelope.base_schema)
\* (faulty variant: without reconciliation the table still loses the
\* fields of placeholder name)
TableSchemaFiltered ==
    IF reconciled.kind = "Ok" THEN reconciled.arrow_schema
    ELSE SelectSeq(input_schema,
                   LAMBDA f : ~starts_with(f.name, PLACEHOLDER_PREFIX))
TableSchema ==
    IF reconciled.kind = "Ok" THEN reconciled.arrow_schema ELSE input_schema

DummyPlan ==
    Plan(remove_type_extensions(envelope.extensions), SubstraitSchema, expr,
         TableSchema)

\* lines 298-348, the planner converting the plan
PlanOk ==
    /\ pc = "plan"
    /\ PlannerAccepts(expr, Len(TopNames(SubstraitSchema)))
    /\ plan' = Some(DummyPlan)
    /\ \E odd \in ConsumedRefs(expr) \cup {-1}, other \in OtherRelations :
         /\ odd = -1 => other = None
         /\ df_expr' = Some(FromSubstraitRex(expr, TopNames(SubstraitSchema),
                                             odd, other))
    /\ pc' = "strip"
    /\ trail' = Append(trail, "plan")
    /\ UNCHANGED <<shared, native_expr, envelope, input_schema, expr, reconciled,
                   index_mapping, remapped, result>>

\* lines 298-346, the planner failing: `.await?`
PlanErr ==
    /\ pc = "plan"
    /\ ~PlannerAccepts(expr, Len(TopNames(SubstraitSchema)))
    /\ plan' = Some(DummyPlan)
    /\ \E e \in PlannerErrors :
         Return(Err(FromDataFusionError(e, "from_substrait_plan")))
    /\ trail' = Append(trail, "plan")
    /\ UNCHANGED <<shared, native_expr, envelope, input_schema, expr, reconciled,
                   index_mapping, remapped, df_expr>>

\* lines 354-382
Strip ==
    /\ pc = "strip"
    /\ Return(Transform(unwrap(df_expr)))
    /\ trail' = Append(trail, "strip")
    /\ UNCHANGED <<shared, native_expr, envelope, input_schema, expr, reconciled,
                   index_mapping, remapped, plan, df_expr>>

Next ==
    \/ Encode
    \/ Decode
    \/ Validate
    \/ Reconcile
    \/ RemapReferences
    \/ PlanOk
    \/ PlanErr
    \/ Strip

Spec == Init /\ [][Next]_vars

----------------------------------------------------------------------------
(* Properties of remove_extension_types *)

\* the inputs and the output of the call, once it has returned
WireIn == unwrap(envelope.base_schema)
TypesIn == unwrap(WireIn.struct).types
Reconciled == pc = "returned" /\ reconciled.kind = "Ok"
TypesOut == unwrap(reconciled.substrait_schema.struct).types
NamesOut == reconciled.substrait_schema.names

\* the flattened index at which the k-th top-level field starts
OldStart(k) == SumCounts(SubSeq(TypesIn, 1, k - 1), 1)
\* the k-th top-level field is one the reconciler is to keep
KeptTop(k) ==
    /\ OldStart(k) < Len(WireIn.names)
    /\ WireIn.names[OldStart(k) + 1].prefix # PLACEHOLDER_PREFIX
    /\ TypesIn[k].kind \notin {"UserDefined", "UserDefinedTypeReference"}
\* the flattened indices of the k-th top-level field and its descendants
OldSlots(k) == OldStart(k) .. (OldStart(k) + count_fields(TypesIn[k]) - 1)
HasRecord(types) == \E k \in 1..Len(types) : types[k].kind = "Struct"

\* C7 as stated: after reconciliation the reduced wire names, the reduced
\* native schema fields and the summed flattened spans of the kept
\* top-level fields all have the same length.
C7_SizeInvariantAsStated ==
    Reconciled =>
        /\ Len(NamesOut) = Len(reconciled.arrow_schema)
        /\ Len(reconciled.arrow_schema) = SumCounts(TypesOut, 1)

\* C7 amended: the reduced wire names are as many as the summed flattened
\* spans of the kept top-level fields, the reduced native schema has one
\* field per kept top-level field, and the two agree when no kept field is
\* a record.
C7_SizeInvariant ==
    Reconciled =>
        /\ Len(NamesOut) = SumCounts(TypesOut, 1)
        /\ Len(NamesOut) = Cardinality(DOMAIN reconciled.index_mapping)
        /\ Len(reconciled.arrow_schema) = Len(TypesOut)
        /\ Len(TypesOut) = Cardinality({k \in 1..Len(TypesIn) : KeptTop(k)})
        /\ (~HasRecord(TypesOut) =>
               Len(NamesOut) = Len(reconciled.arrow_schema))

\* a record field is kept next to a dropped field
C7_Witness ==
    /\ Reconciled
    /\ HasRecord(TypesOut)
    /\ Len(TypesOut) < Len(TypesIn)
    /\ Len(NamesOut) > Len(reconciled.arrow_schema)

\* C8: the keys of the index map are exactly the old flattened indices of
\* the kept top-level fields and of their descendants; no index of a
\* dropped top-level field or of its descendants is a key.
C8_RemapTotality ==
    Reconciled =>
        /\ DOMAIN reconciled.index_mapping =
             UNION {OldSlots(k) : k \in {j \in 1..Len(TypesIn) : KeptTop(j)}}
        /\ \A k \in 1..Len(TypesIn) :
             ~KeptTop(k) => OldSlots(k) \cap DOMAIN reconciled.index_mapping = {}

\* a record is dropped and a record is kept
C8_Witness ==
    /\ Reconciled
    /\ \E k \in 1..Len(TypesIn) :
         ~KeptTop(k) /\ TypesIn[k].kind = "Struct"
    /\ \E k \in 1..Len(TypesIn) :
         KeptTop(k) /\ TypesIn[k].kind = "Struct" /\ OldStart(k) > 0

\* C9 as stated: the call fails exactly when the flattened field count of
\* the wire schema differs from the field count of the native schema.
C9_ShapePreconditionAsStated ==
    pc = "returned" =>
        (reconciled.kind = "Err" <=> SumCounts(TypesIn, 1) # Len(input_schema))

WellFormedIn ==
    /\ Len(WireIn.names) = SumCounts(TypesIn, 1)
    /\ \A k \in 1..Len(TypesIn) : ~count_fields_panics(TypesIn[k])

\* C9 amended: the call fails, with an InvalidInput error and before
\* producing any output, exactly when the number of top-level wire fields
\* differs from the field count of the native schema; when they agree and
\* the wire schema is well formed it returns the reduced schemas and the map.
C9_ShapePrecondition ==
    pc = "returned" =>
        /\ reconciled.kind = "Err" <=> Len(TypesIn) # Len(input_schema)
        /\ reconciled.kind = "Err" =>
             /\ reconciled.error.variant = "InvalidInput"
             /\ reconciled.substrait_schema = EmptyNamedStruct
             /\ reconciled.arrow_schema = <<>>
             /\ reconciled.index_mapping = EmptyMap
        /\ (Len(TypesIn) = Len(input_schema) /\ WellFormedIn) =>
             reconciled.kind = "Ok"

\* the counts of top-level fields agree, the flattened count does not
C9_Witness ==
    /\ Reconciled
    /\ Len(TypesIn) = Len(input_schema)
    /\ SumCounts(TypesIn, 1) # Len(input_schema)

\* the counts of top-level fields differ
C9_WitnessErr ==
    pc = "returned" /\ reconciled.kind = "Err"

----------------------------------------------------------------------------
(* Properties of remap_expr_references *)

RECURSIVE AllFields(_, _)
AllFields(records, i) ==
    IF i > Len(records) THEN <<>>
    ELSE records[i].fields \o AllFields(records, i + 1)

\* every sub-expression slot of an expression, as one sequence
Children(e) ==
    e.nested \o e.args
    \o [i \in 1..Len(e.arguments) |->
          IF is_some(e.arguments[i].value) THEN unwrap(e.arguments[i].value)
          ELSE Expression]
    \o [i \in 1..Len(e.ifs) |->
          IF is_some(e.ifs[i].if) THEN unwrap(e.ifs[i].if) ELSE Expression]
    \o [i \in 1..Len(e.ifs) |->
          IF is_some(e.ifs[i].then) THEN unwrap(e.ifs[i].then) ELSE Expression]
    \o e.else \o e.match \o e.options
    \o AllFields(e.records, 1)
    \o e.value \o e.input \o e.root_expr

\* the indices of the direct-input bare struct-field references located
\* anywhere in the tree
RECURSIVE FieldRefsAnywhere(_)
FieldRefsAnywhere(e) ==
    (IF IsFieldRef(e) THEN {e.field} ELSE {})
    \cup UNION {FieldRefsAnywhere(Children(e)[i]) : i \in 1..Len(Children(e))}

\* the tree with the index of every direct-input bare struct-field
\* reference, wherever it is located, sent through the map, and nothing
\* else changed
RECURSIVE RewriteAnywhere(_, _)
RewriteAnywhere(e, mapping) ==
    LET Each(es) == [i \in 1..Len(es) |-> RewriteAnywhere(es[i], mapping)] IN
    [e EXCEPT
       !.field = IF IsFieldRef(e) /\ contains_key(mapping, e.field)
                 THEN mapping[e.field] ELSE e.field,
       !.nested = Each(e.nested),
       !.args = Each(e.args),
       !.arguments = [i \in 1..Len(e.arguments) |->
                        [e.arguments[i] EXCEPT !.value = Each(@)]],
       !.ifs = [i \in 1..Len(e.ifs) |->
                  [if |-> Each(e.ifs[i].if), then |-> Each(e.ifs[i].then)]],
       !.else = Each(e.else),
       !.match = Each(e.match),
       !.options = Each(e.options),
       !.records = [i \in 1..Len(e.records) |->
                      [fields |-> Each(e.records[i].fields)]],
       !.value = Each(e.value),
       !.input = Each(e.input),
       !.root_expr = Each(e.root_expr)]

Remapped == pc = "returned" /\ remapped.kind = "Ok"

\* C6: when remap_expr_references succeeds with index map M, every
\* direct-input bare struct-field reference anywhere in the tree (inside
\* nested values, the matched value of a switch, the sub-expression of a
\* selection rooted at an expression) that had index i has index M[i], and
\* nothing else of the tree has changed.
C6_RemapCoverage ==
    Remapped =>
        /\ FieldRefsAnywhere(expr) \subseteq DOMAIN index_mapping
        /\ remapped.v = RewriteAnywhere(expr, index_mapping)

----------------------------------------------------------------------------
(* Properties of parse_substrait *)

Done == pc = "done"
Ran(step) == \E i \in 1..Len(trail) : trail[i] = step
LastStep == trail[Len(trail)]
\* the expression of the single referenced entry of the envelope
WireExpr == envelope.referred_expr[1].expr

RECURSIVE Columns(_)
Columns(e) ==
    (IF e.variant = "Column" THEN {e} ELSE {})
    \cup UNION {Columns(e.children[i]) : i \in 1..Len(e.children)}

QualifiedByDummy(c) == c.relation = Some(Bare("dummy"))

\* the expression with the qualifier of every column qualified by the bare
\* table "dummy" taken off, and nothing else changed
RECURSIVE Unqualified(_)
Unqualified(e) ==
    [e EXCEPT
       !.relation = IF e.variant = "Column" /\ QualifiedByDummy(e)
                    THEN None ELSE @,
       !.children = [i \in 1..Len(e.children) |-> Unqualified(e.children[i])]]

\* the round trip is one of a schema of representable types, of an
\* expression over it, through a planner that qualifies by the dummy table
RoundTripDone ==
    /\ Done
    /\ is_some(native_expr)
    /\ \A k \in 1..Len(input_schema) : ArrowRepresentable(input_schema[k])
    /\ ColumnsResolve(unwrap(native_expr), input_schema)
    /\ is_some(df_expr) =>
         \A c \in Columns(unwrap(df_expr)) : QualifiedByDummy(c)

\* C1 as stated: for every native expression e over a schema s of
\* representable types, parse_substrait(encode_substrait(e, s), s) succeeds
\* and returns e.
C1_RoundTripAsStated ==
    RoundTripDone => result = Ok(unwrap(native_expr))

NoPlaceholderName ==
    \A k \in 1..Len(input_schema) :
        ~starts_with(input_schema[k].name, PLACEHOLDER_PREFIX)

\* C1 amended: for every native expression e over a schema s of
\* representable types none of whose top-level fields has a name starting
\* with the reserved placeholder prefix, parse_substrait(encode_substrait(e,
\* s), s) succeeds and returns e.
C1_RoundTrip ==
    (RoundTripDone /\ NoPlaceholderName) => result = Ok(unwrap(native_expr))

\* a comparison of two columns of a schema with a record comes back
C1_Witness ==
    /\ RoundTripDone
    /\ NoPlaceholderName
    /\ \E k \in 1..Len(input_schema) : input_schema[k].data_type = "Struct"
    /\ unwrap(native_expr).variant = "BinaryExpr"
    /\ Cardinality(Columns(unwrap(native_expr))) = 2
    /\ result = Ok(unwrap(native_expr))

\* C2: no column of an expression parse_substrait returns carries a
\* qualifier: the columns the planner qualified by the bare table "dummy"
\* come back unqualified under the same name, the unqualified ones
\* unchanged, and any other qualifier makes the decode fail.
C2_QualifierStripping ==
    /\ (Done /\ result.kind = "Ok") =>
         \A c \in Columns(unwrap(result.value)) : c.relation = None
    /\ (Done /\ is_some(df_expr)) =>
         IF \E c \in Columns(unwrap(df_expr)) :
                c.relation # None /\ ~QualifiedByDummy(c)
         THEN result.kind = "Err"
         ELSE result = Ok(Unqualified(unwrap(df_expr)))

\* the planner returned a column qualified by "dummy" next to an
\* unqualified one, and the decode returned both unqualified
C2_Witness ==
    /\ Done
    /\ result.kind = "Ok"
    /\ is_some(df_expr)
    /\ \E c \in Columns(unwrap(df_expr)) : QualifiedByDummy(c)
    /\ \E c \in Columns(unwrap(df_expr)) : c.relation = None
    /\ unwrap(result.value) # unwrap(df_expr)

\* C3: an envelope without referenced expressions fails with InvalidInput
\* naming "no expressions", one with two or more fails with InvalidInput
\* naming the one expected; only an envelope with exactly one goes on.
C3_EnvelopeCardinality ==
    /\ (Done /\ Ran("validate") /\ Len(envelope.referred_expr) = 0) =>
         result = Err(InvalidInput("the provided substrait expression is empty (contains no expressions)"))
    /\ (Done /\ Ran("validate") /\ Len(envelope.referred_expr) > 1) =>
         result = Err(InvalidInput("the provided substrait expression had {} expressions when only 1 was expected"))
    /\ Ran("reconcile") => Len(envelope.referred_expr) = 1

\* two scalar expressions are referenced
C3_Witness ==
    /\ Done
    /\ Len(envelope.referred_expr) = 2
    /\ \A i \in 1..2 : envelope.referred_expr[i].expr_type = "Expression"
    /\ result.kind = "Err"

\* C4: when the single referenced entry has no expression sub-type, or one
\* other than a scalar expression, the decode fails with InvalidInput and
\* runs neither reconciliation nor remapping nor plan construction.
C4_EnvelopeSubKind ==
    (/\ Ran("validate")
     /\ Len(envelope.referred_expr) = 1
     /\ envelope.referred_expr[1].expr_type # "Expression") =>
        /\ Done
        /\ result.kind = "Err"
        /\ result.error.variant = "InvalidInput"
        /\ LastStep = "validate"
        /\ reconciled = ReconcileNotRun
        /\ remapped = RemapNotRun
        /\ plan = None

\* the single entry is a measure
C4_Witness ==
    /\ Done
    /\ Len(envelope.referred_expr) = 1
    /\ envelope.referred_expr[1].expr_type = "Measure"
    /\ result.kind = "Err"

\* a window function, a subquery, a masked reference, a list-element or
\* map-key reference, or a struct-field reference with a child, anywhere
RECURSIVE ContainsRejected(_)
ContainsRejected(e) ==
    \/ e.rex_type \in {"WindowFunction", "Subquery"}
    \/ /\ e.rex_type = "Selection"
       /\ \/ e.reference_type = "MaskedReference"
          \/ /\ e.reference_type = "DirectReference"
             /\ \/ e.segment \in {"ListElement", "MapKey"}
                \/ e.segment = "StructField" /\ e.child
    \/ \E i \in 1..Len(Children(e)) : ContainsRejected(Children(e)[i])

\* C5: a wire expression that contains one of these anywhere is never
\* decoded to an expression, whether or not reconciliation dropped a field.
\* (That the decode then ends in a typed rejection rather than an abort is
\* the subject of C11.)
C5_RejectionCompleteness ==
    (/\ Done
     /\ Ran("reconcile")
     /\ ContainsRejected(WireExpr)) => result.kind # "Ok"

\* why a decode failed: the step it failed in
FailedIn(step) == Done /\ result.kind = "Err" /\ LastStep = step

EnvelopeMessages ==
    {"the provided substrait expression is empty (contains no expressions)",
     "the provided substrait expression had {} expressions when only 1 was expected",
     "the provided substrait had an expression but was missing an expr_type",
     "the provided substrait was not a scalar expression"}
ShapeMessages ==
    {"Window functions or subqueries not allowed in filter expression",
     "map/list nested references not supported in pushdown filters",
     "nested references in pushdown filters not yet supported",
     "masked references not yet supported in filter expressions",
     "pushdown filter referenced a field that is not yet supported by Substrait conversion"}
MismatchMessages ==
    {"the number of fields in the provided substrait schema did not match the number of fields in the input schema."}

C11_NoAbort ==
    Done => result.kind \in {"Ok", "Err"}

\* the steps of a decode in the order parse_substrait takes them
StepOrder ==
    <<"encode", "decode", "validate", "reconcile", "remap", "plan", "strip">>
Position(step) == CHOOSE i \in 1..Len(StepOrder) : StepOrder[i] = step

\* the step has run and has failed, told from what it left behind
StepFailed(step) ==
    /\ Ran(step)
    /\ CASE step = "decode" -> envelope.malformed
         [] step = "validate" -> ValidateEnvelope(envelope).kind = "Err"
         [] step = "reconcile" -> reconciled.kind = "Err"
         [] step = "remap" -> remapped.kind = "Err"
         [] step = "plan" -> df_expr = None
         [] step = "strip" -> Transform(unwrap(df_expr)).kind = "Err"
         [] OTHER -> FALSE

\* the failure the step produced
FailureOf(step) ==
    CASE step = "decode" -> {Err(FromDecodeError)}
      [] step = "validate" -> {ValidateEnvelope(envelope)}
      [] step = "reconcile" -> {Err(reconciled.error)}
      [] step = "remap" -> {Err(remapped.error)}
      [] step = "plan" ->
           {Err(FromDataFusionError(e, "from_substrait_plan")) :
              e \in PlannerErrors}
      [] step = "strip" -> {Transform(unwrap(df_expr))}
      [] OTHER -> {}

DecodeSteps == {"decode", "validate", "reconcile", "remap", "plan", "strip"}

\* C12: the steps of a decode run in the order validation, reconciliation,
\* remapping, plan construction, qualifier stripping, each at most once; when
\* a step fails the decode is over, its result is the failure of that step,
\* no later step has run (after a rejection by the remapper no plan was
\* built), and no expression is returned.
C12_FailFast ==
    /\ \A i, j \in 1..Len(trail) :
         i < j => Position(trail[i]) < Position(trail[j])
    /\ \A step \in DecodeSteps :
         StepFailed(step) =>
            /\ Done
            /\ LastStep = step
            /\ result \in FailureOf(step)
            /\ result.kind = "Err"
            /\ result.value = None
    /\ remapped.kind = "Err" => plan = None /\ df_expr = None
    /\ result.kind = "Err" => Done /\ result.value = None

\* the remapper rejected the expression after reconciliation dropped a field
C12_Witness ==
    /\ Done
    /\ trail = <<"decode", "validate", "reconcile", "remap">>
    /\ remapped.kind = "Err"
    /\ result = Err(remapped.error)
    /\ plan = None

\* the summed spans of the kept fields among the first k top-level fields
RECURSIVE SumKept(_)
SumKept(k) ==
    IF k = 0 THEN 0
    ELSE SumKept(k - 1) + (IF KeptTop(k) THEN count_fields(TypesIn[k]) ELSE 0)
\* the new flattened index at which the k-th top-level field starts, if kept
NewStart(k) == SumKept(k - 1)

\* C15: for each kept top-level field that starts at old flattened index o
\* and spans s slots, the index map sends o+i to c+i for every i in [0, s),
\* c being the summed spans of the kept top-level fields before it; so the
\* map is strictly increasing, injective, its image is 0..n-1 for its n
\* keys, and the reduced names hold each retained old name at its new index.
C15_IndexMapValues ==
    Reconciled =>
      LET M == reconciled.index_mapping
          n == Cardinality(DOMAIN M)
      IN
        /\ \A k \in 1..Len(TypesIn) :
             KeptTop(k) =>
               \A i \in 0..(count_fields(TypesIn[k]) - 1) :
                 /\ contains_key(M, OldStart(k) + i)
                 /\ M[OldStart(k) + i] = NewStart(k) + i
        /\ \A a, b \in DOMAIN M : a < b => M[a] < M[b]
        /\ {M[a] : a \in DOMAIN M} = 0..(n - 1)
        /\ Len(NamesOut) = n
        /\ \A o \in DOMAIN M :
             o < Len(WireIn.names) => NamesOut[M[o] + 1] = WireIn.names[o + 1]

\* a record with its child is kept after a dropped record: its slots move
\* down by the span of the dropped one
C15_Witness ==
    /\ Reconciled
    /\ \E k \in 1..Len(TypesIn) :
         /\ KeptTop(k)
         /\ TypesIn[k].kind = "Struct"
         /\ OldStart(k) - NewStart(k) >= 2
         /\ reconciled.index_mapping[OldStart(k) + 1] = NewStart(k) + 1
    /\ Len(WireIn.names) = SumCounts(TypesIn, 1)

\* the elements of a sequence paired with the top-level fields that sit at
\* the positions of the fields the reconciler is to keep, from the k-th on
RECURSIVE KeptOf(_, _)
KeptOf(seq, k) ==
    IF k > Len(seq) THEN <<>>
    ELSE (IF KeptTop(k) THEN <<seq[k]>> ELSE <<>>) \o KeptOf(seq, k + 1)

\* C16: a top-level field is dropped exactly when the name at its own
\* flattened index starts with the placeholder prefix or its kind is a
\* user-defined type or type reference; the others are kept, in their
\* order, in the reduced wire schema and in the reduced native schema, a
\* record with all its descendants and their names whatever these are.
C16_DropRule ==
    Reconciled =>
        /\ TypesOut = KeptOf(TypesIn, 1)
        /\ reconciled.arrow_schema = KeptOf(input_schema, 1)
        /\ \A k \in 1..Len(TypesIn) :
             KeptTop(k) =>
               \A i \in 0..(count_fields(TypesIn[k]) - 1) :
                 OldStart(k) + i < Len(WireIn.names) =>
                   NamesOut[NewStart(k) + i + 1] =
                     WireIn.names[OldStart(k) + i + 1]

\* a record with a user-defined child and a record with a child of
\* placeholder name are kept, a field of placeholder name is dropped
C16_Witness ==
    /\ Reconciled
    /\ \E k \in 1..Len(TypesIn) :
         /\ KeptTop(k)
         /\ TypesIn[k] = TypeStruct(<<TypeUserDefined>>)
    /\ \E k \in 1..Len(TypesIn) :
         /\ KeptTop(k)
         /\ TypesIn[k].kind = "Struct"
         /\ WireIn.names[OldStart(k) + 2].prefix = PLACEHOLDER_PREFIX
         /\ NamesOut[NewStart(k) + 2].prefix = PLACEHOLDER_PREFIX
    /\ \E k \in 1..Len(TypesIn) :
         /\ ~KeptTop(k)
         /\ TypesIn[k].kind = "I32"
    /\ Len(TypesOut) = 2

\* reconciliation succeeded and left at least one top-level field out
Dropped ==
    /\ reconciled.kind = "Ok"
    /\ \E k \in 1..Len(TypesIn) : ~KeptTop(k)

\* C14: parse_substrait runs the remapper exactly when reconciliation
\* dropped at least one top-level field; when it dropped none, the
\* expression handed to plan construction is the one read from the
\* envelope, field indices and root types included.
C14_FastPath ==
    /\ Ran("remap") => Dropped
    /\ Dropped => (pc = "remap" \/ Ran("remap"))
    /\ (Ran("reconcile") /\ reconciled.kind = "Ok" /\ ~Dropped) =>
          /\ remapped = RemapNotRun
          /\ expr = WireExpr
          /\ is_some(plan) => unwrap(plan).expressions = <<WireExpr>>

\* nothing was dropped and an expression with a field reference was planned
C14_Witness ==
    /\ Done
    /\ reconciled.kind = "Ok"
    /\ ~Dropped
    /\ HasRecord(TypesIn)
    /\ is_some(plan)
    /\ FieldRefsAnywhere(WireExpr) # {}
    /\ unwrap(plan).expressions = <<WireExpr>>
    /\ result.kind = "Ok"

\* the wire expression refers, by the position the producer and the planner
\* give a struct-field reference (the ordinal of a top-level field), to a
\* top-level field reconciliation left out
RefersToDropped ==
    /\ Dropped
    /\ \E i \in FieldRefsAnywhere(WireExpr) :
         i + 1 <= Len(TypesIn) /\ ~KeptTop(i + 1)

\* C17: when the remapper reaches a direct-input bare struct-field reference
\* whose index is not a key of the index map it rejects the expression with
\* InvalidInput ("... a field that is not yet supported by Substrait
\* conversion") and leaves the index as it was; so the decode of an
\* expression that refers to a field reconciliation removed fails, and
\* never returns an expression that points at another field.
C17_DroppedReference ==
    /\ (/\ Ran("remap")
        /\ IsFieldRef(WireExpr)
        /\ ~contains_key(index_mapping, WireExpr.field)) =>
          /\ remapped = RemapErr("pushdown filter referenced a field that is not yet supported by Substrait conversion", WireExpr)
          /\ result = Err(remapped.error)
    /\ (Done /\ RefersToDropped) => result.kind # "Ok"

\* the envelope has a base schema, and it has no struct
Structless ==
    /\ is_some(envelope.base_schema)
    /\ ~is_some(unwrap(envelope.base_schema).struct)

\* C18: when the base schema of the envelope has no struct, parse_substrait
\* runs neither the reconciler nor the remapper, goes on to plan
\* construction with the base schema and the expression of the envelope as
\* they are, and binds the dummy table to the caller's schema as it is,
\* whatever the number and the names of its fields.
C18_NoStructuralSchema ==
    (Ran("reconcile") /\ Structless) =>
        /\ reconciled = ReconcileNotRun
        /\ index_mapping = EmptyMap
        /\ remapped = RemapNotRun
        /\ ~Ran("remap")
        /\ expr = WireExpr
        /\ pc = "plan" \/ (Ran("plan") /\ is_some(plan))
        /\ is_some(plan) =>
             /\ unwrap(plan).base_schema = unwrap(envelope.base_schema)
             /\ unwrap(plan).expressions = <<WireExpr>>
             /\ unwrap(plan).table_schema = input_schema

\* a base schema with a placeholder name and no struct, a caller's schema
\* with a field of placeholder name and a user-defined one
C18_Witness ==
    /\ Done
    /\ Structless
    /\ unwrap(envelope.base_schema).names # <<>>
    /\ is_some(plan)
    /\ unwrap(plan).table_schema = input_schema
    /\ \E k \in 1..Len(input_schema) :
         starts_with(input_schema[k].name, PLACEHOLDER_PREFIX)
    /\ \E k \in 1..Len(input_schema) :
         input_schema[k].data_type = "UserDefined"
    /\ result.kind = "Ok"

----------------------------------------------------------------------------
(* Properties of CloneableError *)

\* the Error inside a failed CloneableResult
ErrorIn(cell) == unwrap(cell[1].error)[1]
IsErr(cell) == cell[1].kind = "Err"

\* C13: the CloneableResult made from a failed result holds the error of
\* that result, with its kind, its text and its location; every clone of
\* it, and every clone of a clone, holds an error of kind Cloned whose
\* message is the rendered string of the error it was cloned from; no value
\* changes once made; so an error has the kind Cloned exactly when it was
\* relayed by a clone.
C13_CloneSafe ==
    \A i \in 1..Len(shared) :
      LET s == shared[i] IN
        /\ s.cell = s.made
        /\ s.from = 0 =>
             LET r == unwrap(s.input) IN
               /\ s.cell[1].kind = r.kind
               /\ s.cell[1].value = r.value
               /\ r.kind = "Err" => ErrorIn(s.cell) = unwrap(r.error)
        /\ s.from > 0 =>
             LET src == shared[s.from].cell IN
               /\ s.from < i
               /\ s.cell[1].kind = src[1].kind
               /\ s.cell[1].value = src[1].value
               /\ IsErr(src) =>
                    /\ ErrorIn(s.cell).variant = "Cloned"
                    /\ ErrorIn(s.cell).source =
                         <<Display(ErrorIn(src).variant)>>
                         \o ErrorIn(src).source
                         \o <<IF ErrorIn(src).variant = "SchemaMismatch"
                              THEN ", location: " ELSE ", ">>
                         \o <<ErrorIn(src).location>>
        /\ IsErr(s.cell) => (ErrorIn(s.cell).variant = "Cloned" <=> s.relayed)

\* a failure, a clone of it and a clone of that clone
C13_Witness ==
    \E i \in 1..Len(shared) :
      /\ IsErr(shared[i].cell)
      /\ shared[i].from > 0
      /\ shared[shared[i].from].from > 0
      /\ shared[shared[shared[i].from].from].from = 0
      /\ ErrorIn(shared[shared[shared[i].from].from].cell).variant = "IO"
      /\ ErrorIn(shared[i].cell).source[1] = "Cloned error: "
      /\ ErrorIn(shared[i].cell).source[2] = "LanceError(IO): "

=============================================================================
